---- MODULE Spec2Model ----
(***************************************************************************)
(* Model of the weed-fs needle index (go/storage/needle_map.go) and of the *)
(* volume layout (src/topology/volume_layout.go).                          *)
(*                                                                         *)
(* The index log is modelled byte by byte.  A uint64 is a pair <<hi, lo>>  *)
(* of 32-bit words (TLC integers are 32 bits wide), a uint32 and an int    *)
(* are integers.                                                           *)
(***************************************************************************)
EXTENDS Integers, Sequences, FiniteSets, TLC

\* ------------------------------------------------------------------ bounds
MaxOps == 3          \* calls made on one needle index
MaxFailures == 1     \* calls among them whose file operation fails
MaxIOOps == 2        \* calls made on one needle index when file operations may fail
MaxOffset == 1       \* offsets passed to Put are 0..MaxOffset
MaxSize == 1         \* sizes passed to Put are 0..MaxSize
MaxCount == 2        \* counts passed to NextFileKey are 0..MaxCount
MaxCopyCount == 2    \* copy counts of the replication classes tried
MaxDataNode == 2     \* data nodes 1..MaxDataNode
VolumeSizeLimit == 2 \* the volumeSizeLimit given to NewVolumeLayout

Keys == {<<0, 1>>, <<0, 257>>}
Offsets == 0..MaxOffset
Sizes == 0..MaxSize
Counts == 0..MaxCount
\* bytes a failing Write may have put into the file before the error
TornLens == {0, 7}

DataNodes == 1..MaxDataNode
Vids == {1, 2}
CopyCounts == 1..MaxCopyCount
\* counts passed to PickForWrite
PickCounts == {0, MaxCount}

RowsToRead == 1024
RecordSize == 16
CurrentVersion == 2

\* ------------------------------------------------- util: integers and bytes
RECURSIVE UintToBytes(_, _)
UintToBytes(v, n) ==
    IF n = 0 THEN <<>> ELSE Append(UintToBytes(v \div 256, n - 1), v % 256)

RECURSIVE BytesToUint(_)
BytesToUint(b) ==
    IF b = <<>> THEN 0
    ELSE BytesToUint(SubSeq(b, 1, Len(b) - 1)) * 256 + b[Len(b)]

Uint32toBytes(v) == UintToBytes(v, 4)
BytesToUint32(b) == BytesToUint(b)
Uint64toBytes(k) == Uint32toBytes(k[1]) \o Uint32toBytes(k[2])
BytesToUint64(b) == <<BytesToUint32(SubSeq(b, 1, 4)), BytesToUint32(SubSeq(b, 5, 8))>>

\* a > b on uint64
U64Greater(a, b) == a[1] > b[1] \/ (a[1] = b[1] /\ a[2] > b[2])

\* a + n on uint64, n a non-negative int
U64Add(a, n) ==
    IF (a[2] + n) \div 65536 >= 65536
    THEN <<(a[1] + 1) % (65536 * 65536), a[2] + n - 65536 * 65536>>
    ELSE <<a[1], a[2] + n>>

Zero64 == <<0, 0>>

Min(a, b) == IF a < b THEN a ELSE b

\* ------------------------------------------------------------- CompactMap
\* a map is a function from the keys it holds to [offset, size]
NewCompactMap == <<>>

CompactMapSet(m, key, offset, size) ==
    [m      |-> [k \in (DOMAIN m) \cup {key} |->
                    IF k = key THEN [offset |-> offset, size |-> size] ELSE m[k]],
     oldSize |-> IF key \in DOMAIN m THEN m[key].size ELSE 0]

CompactMapDelete(m, key) ==
    [m      |-> [k \in (DOMAIN m) \ {key} |-> m[k]],
     oldSize |-> IF key \in DOMAIN m THEN m[key].size ELSE 0]

CompactMapGet(m, key) ==
    [ok |-> key \in DOMAIN m,
     element |-> IF key \in DOMAIN m THEN m[key] ELSE [offset |-> 0, size |-> 0]]

\* ------------------------------------------------------------- NeedleMap
NewNeedleMap ==
    [m |-> NewCompactMap,
     DeletionCounter |-> 0, FileCounter |-> 0,
     DeletionByteCounter |-> 0, FileByteCounter |-> 0,
     MaximumFileKey |-> Zero64]

\* the 16 bytes Put hands to Write
PutRecord(key, offset, size) ==
    Uint64toBytes(key) \o Uint32toBytes(offset) \o Uint32toBytes(size)

\* the 16 bytes Delete hands to Write
DeleteRecord_NonZeroOffset(key) ==
    Uint64toBytes(key) \o Uint32toBytes(1) \o Uint32toBytes(0)

DeleteRecord(key) ==
    Uint64toBytes(key) \o Uint32toBytes(0) \o Uint32toBytes(0)

\* one Read of the buffered reader: the next chunk of the file.  reads is the
\* sequence of chunk lengths the reader delivers; once it is used up a Read
\* delivers all that is left.  0 bytes means io.EOF.
ReadLen(rest, reads, room) ==
    IF rest = <<>> THEN 0
    ELSE IF reads = <<>> THEN Min(Len(rest), room)
    ELSE Min(Min(Head(reads), Len(rest)), room)

\* the records of the complete 16-byte rows in the first count bytes
RowsOf(bytes) ==
    [j \in 1..(Len(bytes) \div RecordSize) |->
        LET i == (j - 1) * RecordSize
        IN [key    |-> BytesToUint64(SubSeq(bytes, i + 1, i + 8)),
            offset |-> BytesToUint32(SubSeq(bytes, i + 9, i + 12)),
            size   |-> BytesToUint32(SubSeq(bytes, i + 13, i + 16))]]

\* the error of a Read that delivered n bytes: io.EOF when nothing is left
ReadErr(n) == IF n = 0 THEN "EOF" ELSE "nil"

\* the loop without stitching: a partial row left in the buffer is overwritten
\* by the next Read
RECURSIVE WalkLoop_NoStitch(_, _, _, _, _)
WalkLoop_NoStitch(buf, e, rest, reads, acc) ==
    IF ~(Len(buf) > 0 /\ e = "nil") THEN [records |-> acc, e |-> e]
    ELSE
        LET acc2 == acc \o RowsOf(buf)
            n    == ReadLen(rest, reads, RecordSize * RowsToRead)
        IN  WalkLoop_NoStitch(SubSeq(rest, 1, n), ReadErr(n),
                              SubSeq(rest, n + 1, Len(rest)),
                              IF reads = <<>> THEN reads ELSE Tail(reads), acc2)

\* the loop of walkIndexFile: bytes[0:count] is buf, e the error of the last
\* Read, rest the unread file, acc the records handed to fn so far
RECURSIVE WalkLoop(_, _, _, _, _)
WalkLoop(buf, e, rest, reads, acc) ==
    IF ~(Len(buf) > 0 /\ e = "nil") THEN [records |-> acc, e |-> e]
    ELSE
        LET count == Len(buf)
            i     == (count \div RecordSize) * RecordSize
            acc2  == acc \o RowsOf(buf)
        IN  IF count % RecordSize # 0
            THEN LET left == SubSeq(buf, i + 1, count)
                     n    == ReadLen(rest, reads, RecordSize * RowsToRead - Len(left))
                 IN  WalkLoop(left \o SubSeq(rest, 1, n), ReadErr(n),
                              SubSeq(rest, n + 1, Len(rest)),
                              IF reads = <<>> THEN reads ELSE Tail(reads), acc2)
            ELSE LET n == ReadLen(rest, reads, RecordSize * RowsToRead)
                 IN  WalkLoop(SubSeq(rest, 1, n), ReadErr(n),
                              SubSeq(rest, n + 1, Len(rest)),
                              IF reads = <<>> THEN reads ELSE Tail(reads), acc2)

\* walkIndexFile: the records handed to fn, in order, and the error returned
walkIndexFile(file, reads) ==
    LET n == ReadLen(file, reads, RecordSize * RowsToRead)
        w == WalkLoop(SubSeq(file, 1, n), ReadErr(n),
                      SubSeq(file, n + 1, Len(file)),
                      IF reads = <<>> THEN reads ELSE Tail(reads), <<>>)
    IN  [records |-> w.records, err |-> IF w.e = "EOF" THEN "nil" ELSE w.e]

\* the callback of LoadNeedleMap applied to one record
LoadRecord_KeepsTombstoned(nm, r) ==
    LET nm1 == [nm EXCEPT
                  !.MaximumFileKey = IF U64Greater(r.key, @) THEN r.key ELSE @,
                  !.FileCounter = @ + 1,
                  !.FileByteCounter = @ + r.size]
    IN  IF r.offset > 0
        THEN LET s == CompactMapSet(nm1.m, r.key, r.offset, r.size)
             IN  [nm1 EXCEPT
                    !.m = s.m,
                    !.DeletionCounter = IF s.oldSize > 0 THEN @ + 1 ELSE @,
                    !.DeletionByteCounter = IF s.oldSize > 0 THEN @ + s.oldSize ELSE @]
        ELSE [nm1 EXCEPT !.DeletionCounter = @ + 1]

LoadRecord_CountsEverySet(nm, r) ==
    LET nm1 == [nm EXCEPT
                  !.MaximumFileKey = IF U64Greater(r.key, @) THEN r.key ELSE @,
                  !.FileCounter = @ + 1,
                  !.FileByteCounter = @ + r.size]
    IN  IF r.offset > 0
        THEN LET s == CompactMapSet(nm1.m, r.key, r.offset, r.size)
             IN  [nm1 EXCEPT
                    !.m = s.m,
                    !.DeletionCounter = @ + 1,
                    !.DeletionByteCounter = @ + s.oldSize]
        ELSE LET d == CompactMapDelete(nm1.m, r.key)
             IN  [nm1 EXCEPT
                    !.m = d.m,
                    !.DeletionCounter = @ + 1,
                    !.DeletionByteCounter = @ + d.oldSize]

LoadRecord(nm, r) ==
    LET nm1 == [nm EXCEPT
                  !.MaximumFileKey = IF U64Greater(r.key, @) THEN r.key ELSE @,
                  !.FileCounter = @ + 1,
                  !.FileByteCounter = @ + r.size]
    IN  IF r.offset > 0
        THEN LET s == CompactMapSet(nm1.m, r.key, r.offset, r.size)
             IN  [nm1 EXCEPT
                    !.m = s.m,
                    !.DeletionCounter = IF s.oldSize > 0 THEN @ + 1 ELSE @,
                    !.DeletionByteCounter = IF s.oldSize > 0 THEN @ + s.oldSize ELSE @]
        ELSE LET d == CompactMapDelete(nm1.m, r.key)
             IN  [nm1 EXCEPT
                    !.m = d.m,
                    !.DeletionCounter = @ + 1,
                    !.DeletionByteCounter = @ + d.oldSize]

RECURSIVE LoadRecords(_, _)
LoadRecords(nm, rs) ==
    IF rs = <<>> THEN nm ELSE LoadRecords(LoadRecord(nm, Head(rs)), Tail(rs))

LoadNeedleMap(file) == LoadRecords(NewNeedleMap, walkIndexFile(file, <<>>).records)

\* the error values of Put and Delete; "" is nil
ErrShortWrite == "short write"
ErrPosition == "cannot get position of indexfile"
ErrWriting == "error writing to indexfile"
ErrWritingPlusTruncate == "error writing to indexfile\ncouldn't truncate index file"

NeedleMapPut_AlwaysSupersedes(nm, file, key, offset, size, n) ==
    LET s == CompactMapSet(nm.m, key, offset, size)
    IN  [nm   |-> [nm EXCEPT
                     !.m = s.m,
                     !.FileCounter = @ + 1,
                     !.FileByteCounter = @ + size,
                     !.DeletionCounter = @ + 1,
                     !.DeletionByteCounter = @ + s.oldSize],
         file |-> file \o SubSeq(PutRecord(key, offset, size), 1, n),
         err  |-> n < RecordSize,
         msg  |-> IF n < RecordSize THEN ErrShortWrite ELSE ""]

\* Put: the map and the counters are updated, then the record is written;
\* n is the number of bytes Write put into the file (n < 16 is an error)
NeedleMapPut(nm, file, key, offset, size, n) ==
    LET s == CompactMapSet(nm.m, key, offset, size)
    IN  [nm   |-> [nm EXCEPT
                     !.m = s.m,
                     !.FileCounter = @ + 1,
                     !.FileByteCounter = @ + size,
                     !.DeletionCounter = IF s.oldSize > 0 THEN @ + 1 ELSE @,
                     !.DeletionByteCounter = IF s.oldSize > 0 THEN @ + s.oldSize ELSE @],
         file |-> file \o SubSeq(PutRecord(key, offset, size), 1, n),
         err  |-> n < RecordSize,
         msg  |-> IF n < RecordSize THEN ErrShortWrite ELSE ""]

NeedleMapDelete_NoTruncate(nm, file, key, seekOk, n, truncOk) ==
    LET d   == CompactMapDelete(nm.m, key)
        nm1 == [nm EXCEPT !.m = d.m, !.DeletionByteCounter = @ + d.oldSize]
    IN  IF ~seekOk
        THEN [nm |-> nm1, file |-> file, err |-> TRUE, msg |-> ErrPosition]
        ELSE IF n < RecordSize
        THEN [nm   |-> nm1,
              file |-> file \o SubSeq(DeleteRecord(key), 1, n),
              err  |-> TRUE,
              msg  |-> ErrWriting]
        ELSE [nm   |-> [nm1 EXCEPT !.DeletionCounter = @ + 1],
              file |-> file \o DeleteRecord(key),
              err  |-> FALSE,
              msg  |-> ""]

\* Delete: seekOk says whether Seek succeeded, n is the number of bytes Write
\* put into the file, truncOk whether Truncate succeeded
NeedleMapDelete(nm, file, key, seekOk, n, truncOk) ==
    LET d   == CompactMapDelete(nm.m, key)
        nm1 == [nm EXCEPT !.m = d.m, !.DeletionByteCounter = @ + d.oldSize]
    IN  IF ~seekOk
        THEN [nm |-> nm1, file |-> file, err |-> TRUE, msg |-> ErrPosition]
        ELSE IF n < RecordSize
        THEN [nm   |-> nm1,
              file |-> IF truncOk THEN file
                       ELSE file \o SubSeq(DeleteRecord(key), 1, n),
              err  |-> TRUE,
              msg  |-> IF truncOk THEN ErrWriting ELSE ErrWritingPlusTruncate]
        ELSE [nm   |-> [nm1 EXCEPT !.DeletionCounter = @ + 1],
              file |-> file \o DeleteRecord(key),
              err  |-> FALSE,
              msg  |-> ""]

\* NextFileKey has a value receiver: it works on a copy of the NeedleMap.
\* The result holds the value returned and the copy as the method leaves it.
NeedleMapNextFileKey(copy, count) ==
    IF count <= 0 THEN [ret |-> Zero64, copy |-> copy]
    ELSE [ret  |-> copy.MaximumFileKey,
          copy |-> [copy EXCEPT !.MaximumFileKey = U64Add(@, count)]]

\* Visit: the live entries, handed to the visitor in the order the map
\* iterates, given as a sequence of the map's keys
CompactMapVisit(m, order) ==
    [i \in DOMAIN order |->
        [key |-> order[i], offset |-> m[order[i]].offset, size |-> m[order[i]].size]]

NeedleMapVisit(nm, order) == CompactMapVisit(nm.m, order)

ContentSize(nm) == nm.FileByteCounter

DeletedSize(nm) == nm.DeletionByteCounter

FileCount(nm) == nm.FileCounter

DeletedCount(nm) == nm.DeletionCounter

\* ---------------------------------------------------- VolumeLocationList
Range(q) == {q[i] : i \in DOMAIN q}

NewVolumeLocationList == <<>>

LocationListAdd(list, dn) ==
    [list    |-> IF dn \in Range(list) THEN list ELSE Append(list, dn),
     changed |-> dn \notin Range(list)]

LocationListRemove(list, dn) ==
    [list    |-> SelectSeq(list, LAMBDA x : x # dn),
     changed |-> dn \in Range(list)]

\* a replication class is modelled by the number of copies it requires
GetCopyCount(repType) == repType

\* ----------------------------------------------------------- VolumeLayout
\* a layout l is [vid2location, writables]; repType is the layout's class
NewVolumeLayout == [vid2location |-> <<>>, writables |-> <<>>]

\* the reports tried: one that satisfies isWritable and, for each of its three
\* conditions, one that fails that condition alone
VolumeInfo(id, size, version, readOnly, repType) ==
    [Id |-> id, Size |-> size, Version |-> version, ReadOnly |-> readOnly,
     RepType |-> repType]

VolumeInfos(repType) ==
    UNION {{VolumeInfo(id, VolumeSizeLimit - 1, CurrentVersion, FALSE, repType),
            VolumeInfo(id, VolumeSizeLimit, CurrentVersion, FALSE, repType),
            VolumeInfo(id, VolumeSizeLimit - 1, CurrentVersion - 1, FALSE, repType),
            VolumeInfo(id, VolumeSizeLimit - 1, CurrentVersion, TRUE, repType)}
           : id \in Vids}

isWritable(v) ==
    /\ v.Size < VolumeSizeLimit
    /\ v.Version = CurrentVersion
    /\ ~v.ReadOnly

VolumeLayoutRegisterVolume_NoEntry(l, v, dn) ==
    LET loc0 == IF v.Id \in DOMAIN l.vid2location THEN l.vid2location
                ELSE [k \in (DOMAIN l.vid2location) \cup {v.Id} |->
                        IF k = v.Id THEN NewVolumeLocationList ELSE l.vid2location[k]]
        a    == LocationListAdd(loc0[v.Id], dn)
    IN  [vid2location |-> l.vid2location,
         writables    |-> IF /\ a.changed
                             /\ Len(a.list) = GetCopyCount(v.RepType)
                             /\ isWritable(v)
                          THEN Append(l.writables, v.Id)
                          ELSE l.writables,
         added        |-> a.changed]

VolumeLayoutRegisterVolume_IgnoresAdd(l, v, dn) ==
    LET loc0 == IF v.Id \in DOMAIN l.vid2location THEN l.vid2location
                ELSE [k \in (DOMAIN l.vid2location) \cup {v.Id} |->
                        IF k = v.Id THEN NewVolumeLocationList ELSE l.vid2location[k]]
        a    == LocationListAdd(loc0[v.Id], dn)
    IN  [vid2location |-> [loc0 EXCEPT ![v.Id] = a.list],
         writables    |-> IF /\ Len(a.list) = GetCopyCount(v.RepType)
                             /\ isWritable(v)
                          THEN Append(l.writables, v.Id)
                          ELSE l.writables,
         added        |-> a.changed]

VolumeLayoutRegisterVolume(l, v, dn) ==
    LET loc0 == IF v.Id \in DOMAIN l.vid2location THEN l.vid2location
                ELSE [k \in (DOMAIN l.vid2location) \cup {v.Id} |->
                        IF k = v.Id THEN NewVolumeLocationList ELSE l.vid2location[k]]
        a    == LocationListAdd(loc0[v.Id], dn)
    IN  [vid2location |-> [loc0 EXCEPT ![v.Id] = a.list],
         writables    |-> IF /\ a.changed
                             /\ Len(a.list) = GetCopyCount(v.RepType)
                             /\ isWritable(v)
                          THEN Append(l.writables, v.Id)
                          ELSE l.writables,
         added        |-> a.changed]

\* the result of PickForWrite; i is the value of rand.Intn(len_writers)
PickResult(vid, count, locationList, err) ==
    [vid |-> vid, count |-> count, locationList |-> locationList, err |-> err]

ErrNoWritable == "No more writable volumes!"
ErrOnNoMachine == "Strangely vid is on no machine!"

VolumeLayoutPickForWrite_FirstOnly(l, count, i) ==
    LET len_writers == Len(l.writables)
    IN  IF len_writers <= 0
        THEN PickResult(0, 0, <<>>, ErrNoWritable)
        ELSE LET vid == l.writables[1]
             IN  IF vid \in DOMAIN l.vid2location
                 THEN PickResult(vid, count, l.vid2location[vid], "")
                 ELSE PickResult(0, 0, <<>>, ErrOnNoMachine)

VolumeLayoutPickForWrite_NoEmptyCheck(l, count, i) ==
    IF i + 1 \notin DOMAIN l.writables
    THEN PickResult(0, 0, <<>>, "panic: index out of range")
    ELSE LET vid == l.writables[i + 1]
         IN  IF vid \in DOMAIN l.vid2location
             THEN PickResult(vid, count, l.vid2location[vid], "")
             ELSE PickResult(0, 0, <<>>, ErrOnNoMachine)

VolumeLayoutPickForWrite(l, count, i) ==
    LET len_writers == Len(l.writables)
    IN  IF len_writers <= 0
        THEN PickResult(0, 0, <<>>, ErrNoWritable)
        ELSE LET vid == l.writables[i + 1]
             IN  IF vid \in DOMAIN l.vid2location
                 THEN PickResult(vid, count, l.vid2location[vid], "")
                 ELSE PickResult(0, 0, <<>>, ErrOnNoMachine)

GetActiveVolumeCount(l) == Len(l.writables)

removeFromWritable_Keeps(writables, vid) ==
    [writables |-> writables, ret |-> vid \in Range(writables)]

removeFromWritable(writables, vid) ==
    IF vid \in Range(writables)
    THEN LET i == CHOOSE j \in DOMAIN writables :
                    /\ writables[j] = vid
                    /\ \A h \in 1..(j - 1) : writables[h] # vid
         IN  [writables |-> SubSeq(writables, 1, i - 1)
                              \o SubSeq(writables, i + 1, Len(writables)),
              ret |-> TRUE]
    ELSE [writables |-> writables, ret |-> FALSE]

setVolumeWritable_NoCheck(writables, vid) ==
    [writables |-> Append(writables, vid), ret |-> TRUE]

setVolumeWritable(writables, vid) ==
    IF vid \in Range(writables)
    THEN [writables |-> writables, ret |-> FALSE]
    ELSE [writables |-> Append(writables, vid), ret |-> TRUE]

\* vid must be a key of vid2location: the methods dereference the entry
VolumeLayoutSetVolumeUnavailable(l, repType, dn, vid) ==
    LET r   == LocationListRemove(l.vid2location[vid], dn)
        loc == [l.vid2location EXCEPT ![vid] = r.list]
    IN  IF r.changed /\ Len(r.list) < GetCopyCount(repType)
        THEN LET w == removeFromWritable(l.writables, vid)
             IN  [vid2location |-> loc, writables |-> w.writables, ret |-> w.ret]
        ELSE [vid2location |-> loc, writables |-> l.writables, ret |-> FALSE]

VolumeLayoutSetVolumeAvailable_NoThreshold(l, repType, dn, vid) ==
    LET a   == LocationListAdd(l.vid2location[vid], dn)
        loc == [l.vid2location EXCEPT ![vid] = a.list]
    IN  IF a.changed
        THEN LET w == setVolumeWritable(l.writables, vid)
             IN  [vid2location |-> loc, writables |-> w.writables, ret |-> w.ret]
        ELSE [vid2location |-> loc, writables |-> l.writables, ret |-> FALSE]

VolumeLayoutSetVolumeAvailable(l, repType, dn, vid) ==
    LET a   == LocationListAdd(l.vid2location[vid], dn)
        loc == [l.vid2location EXCEPT ![vid] = a.list]
    IN  IF a.changed /\ Len(a.list) >= GetCopyCount(repType)
        THEN LET w == setVolumeWritable(l.writables, vid)
             IN  [vid2location |-> loc, writables |-> w.writables, ret |-> w.ret]
        ELSE [vid2location |-> loc, writables |-> l.writables, ret |-> FALSE]

VolumeLayoutSetVolumeCapacityFull(l, vid) ==
    LET w == removeFromWritable(l.writables, vid)
    IN  [vid2location |-> l.vid2location, writables |-> w.writables, ret |-> w.ret]

\* ------------------------------------------------------------------ state
VARIABLES
    indexFile,   \* the bytes of the index log
    nm,          \* the NeedleMap: m and the mapMetric fields
    calls,       \* the calls made so far, with their results
    repType,     \* the layout's replication class
    vid2location,\* volume id -> location list
    writables,   \* the writable volume ids
    lastCall,    \* the last call made on the layout, with its result
    unwritable   \* the volume ids whose last report failed isWritable, or
                 \* that were passed to SetVolumeCapacityFull since

nmVars == <<indexFile, nm, calls>>
vlVars == <<repType, vid2location, writables, lastCall, unwritable>>
vars == <<indexFile, nm, calls, repType, vid2location, writables, lastCall, unwritable>>

Call(op, key, offset, size, count, err, msg, ret) ==
    [op |-> op, key |-> key, offset |-> offset, size |-> size,
     count |-> count, err |-> err, msg |-> msg, ret |-> ret]

Failures == Cardinality({i \in DOMAIN calls : calls[i].err})

NoPick == PickResult(0, 0, <<>>, "")

\* ret is what Add returned for RegisterVolume and the method's result for
\* the others
LayoutCall(op, vid, ret, pick) ==
    [op |-> op, vid |-> vid, ret |-> ret, pick |-> pick]

InitNeedleMap ==
    /\ indexFile = <<>>
    /\ nm = NewNeedleMap
    /\ calls = <<>>

InitLayout(copyCounts) ==
    /\ repType \in copyCounts
    /\ vid2location = NewVolumeLayout.vid2location
    /\ writables = NewVolumeLayout.writables
    /\ lastCall = LayoutCall("", 0, FALSE, NoPick)
    /\ unwritable = {}

Init ==
    /\ InitNeedleMap
    /\ InitLayout({1})

Put(key, offset, size, n) ==
    /\ Len(calls) < MaxOps
    /\ LET r == NeedleMapPut(nm, indexFile, key, offset, size, n)
       IN  /\ nm' = r.nm
           /\ indexFile' = r.file
           /\ calls' = Append(calls, Call("Put", key, offset, size, 0, r.err, r.msg, Zero64))
    /\ UNCHANGED vlVars

PutOk == \E key \in Keys, offset \in Offsets, size \in Sizes :
            Put(key, offset, size, RecordSize)

PutFails ==
    /\ Failures < MaxFailures
    /\ \E key \in Keys, offset \in Offsets, size \in Sizes, n \in TornLens :
            Put(key, offset, size, n)

Delete(key, seekOk, n, truncOk) ==
    /\ Len(calls) < MaxOps
    /\ LET r == NeedleMapDelete(nm, indexFile, key, seekOk, n, truncOk)
       IN  /\ nm' = r.nm
           /\ indexFile' = r.file
           /\ calls' = Append(calls, Call("Delete", key, 0, 0, 0, r.err, r.msg, Zero64))
    /\ UNCHANGED vlVars

DeleteOk == \E key \in Keys : Delete(key, TRUE, RecordSize, TRUE)

DeleteSeekFails ==
    /\ Failures < MaxFailures
    /\ \E key \in Keys : Delete(key, FALSE, 0, TRUE)

DeleteWriteFails ==
    /\ Failures < MaxFailures
    /\ \E key \in Keys, n \in TornLens, truncOk \in BOOLEAN :
            Delete(key, TRUE, n, truncOk)

NextFileKey(count) ==
    /\ Len(calls) < MaxOps
    /\ LET r == NeedleMapNextFileKey(nm, count)
       IN  calls' = Append(calls, Call("NextFileKey", Zero64, 0, 0, count, FALSE, "", r.ret))
    /\ UNCHANGED <<indexFile, nm>>
    /\ UNCHANGED vlVars

NextFileKeyCall == \E count \in Counts : NextFileKey(count)

\* Close, then LoadNeedleMap on the same file
CloseAndLoad ==
    /\ Len(calls) < MaxOps
    /\ nm' = LoadNeedleMap(indexFile)
    /\ calls' = Append(calls, Call("Load", Zero64, 0, 0, 0, FALSE, "", Zero64))
    /\ UNCHANGED indexFile
    /\ UNCHANGED vlVars

\* the calls whose file operations all succeed
Next ==
    \/ PutOk
    \/ DeleteOk
    \/ NextFileKeyCall
    \/ CloseAndLoad

Spec == Init /\ [][Next]_vars

\* the same with calls whose Seek, Write or Truncate fails, MaxIOOps of them
NextIO ==
    /\ Len(calls) < MaxIOOps
    /\ \/ PutOk
       \/ PutFails
       \/ DeleteOk
       \/ DeleteSeekFails
       \/ DeleteWriteFails
       \/ NextFileKeyCall
       \/ CloseAndLoad

SpecIO == Init /\ [][NextIO]_vars

\* ------------------------------------------------------ the volume layout
Layout == [vid2location |-> vid2location, writables |-> writables]

RegisterVolume(v, dn) ==
    /\ LET r == VolumeLayoutRegisterVolume(Layout, v, dn)
       IN  /\ vid2location' = r.vid2location
           /\ writables' = r.writables
           /\ lastCall' = LayoutCall("RegisterVolume", v.Id, r.added, NoPick)
    /\ unwritable' = IF isWritable(v) THEN unwritable \ {v.Id}
                     ELSE unwritable \cup {v.Id}
    /\ UNCHANGED <<repType, nmVars>>

RegisterVolumeCall ==
    \E v \in VolumeInfos(repType), dn \in DataNodes : RegisterVolume(v, dn)

PickForWrite(count, i) ==
    /\ lastCall' = LayoutCall("PickForWrite", 0, FALSE,
                              VolumeLayoutPickForWrite(Layout, count, i))
    /\ UNCHANGED <<repType, vid2location, writables, unwritable, nmVars>>

PickForWriteCall ==
    \E count \in PickCounts :
        \E i \in 0..(IF Len(writables) > 0 THEN Len(writables) - 1 ELSE 0) :
            PickForWrite(count, i)

SetVolumeUnavailable(dn, vid) ==
    /\ vid \in DOMAIN vid2location
    /\ LET r == VolumeLayoutSetVolumeUnavailable(Layout, repType, dn, vid)
       IN  /\ vid2location' = r.vid2location
           /\ writables' = r.writables
           /\ lastCall' = LayoutCall("SetVolumeUnavailable", vid, r.ret, NoPick)
    /\ UNCHANGED <<repType, unwritable, nmVars>>

SetVolumeUnavailableCall ==
    \E dn \in DataNodes, vid \in Vids : SetVolumeUnavailable(dn, vid)

SetVolumeAvailable(dn, vid) ==
    /\ vid \in DOMAIN vid2location
    /\ LET r == VolumeLayoutSetVolumeAvailable(Layout, repType, dn, vid)
       IN  /\ vid2location' = r.vid2location
           /\ writables' = r.writables
           /\ lastCall' = LayoutCall("SetVolumeAvailable", vid, r.ret, NoPick)
    /\ UNCHANGED <<repType, unwritable, nmVars>>

SetVolumeAvailableCall ==
    \E dn \in DataNodes, vid \in Vids : SetVolumeAvailable(dn, vid)

SetVolumeCapacityFull(vid) ==
    /\ LET r == VolumeLayoutSetVolumeCapacityFull(Layout, vid)
       IN  /\ vid2location' = r.vid2location
           /\ writables' = r.writables
           /\ lastCall' = LayoutCall("SetVolumeCapacityFull", vid, r.ret, NoPick)
    /\ unwritable' = unwritable \cup {vid}
    /\ UNCHANGED <<repType, nmVars>>

SetVolumeCapacityFullCall == \E vid \in Vids : SetVolumeCapacityFull(vid)

InitVL ==
    /\ InitNeedleMap
    /\ InitLayout(CopyCounts)

NextVL ==
    \/ RegisterVolumeCall
    \/ PickForWriteCall
    \/ SetVolumeUnavailableCall
    \/ SetVolumeAvailableCall
    \/ SetVolumeCapacityFullCall

SpecVL == InitVL /\ [][NextVL]_vars

\* ------------------------------------------------- needle index properties
\* every call so far returned without error
AllOk == \A i \in DOMAIN calls : ~calls[i].err

\* every Put so far was given an offset > 0
NoZeroOffsetPut == \A i \in DOMAIN calls : calls[i].op = "Put" => calls[i].offset > 0

SomeCall(op) == \E i \in DOMAIN calls : calls[i].op = op

\* key was Put, later Deleted, and not Put again since
PutThenDeleted(key) ==
    \E i, j \in DOMAIN calls :
        /\ i < j
        /\ calls[i].op = "Put" /\ calls[i].key = key
        /\ calls[j].op = "Delete" /\ calls[j].key = key
        /\ \A l \in DOMAIN calls : (l > j /\ calls[l].op = "Put") => calls[l].key # key

Counters(n) ==
    <<n.FileCounter, n.FileByteCounter, n.DeletionCounter, n.DeletionByteCounter>>

\* C1 as stated: after any sequence of successful Put and Delete calls, the
\* map rebuilt by LoadNeedleMap from the index log equals the live map.
C1_RoundTripLiveMap ==
    AllOk => LoadNeedleMap(indexFile).m = nm.m

\* C1 amended: after any sequence of successful Delete calls and successful
\* Put calls with offset > 0, the map rebuilt by LoadNeedleMap from the index
\* log equals the live map, key for key, offset and size included.
C1_RoundTripLiveMapPositiveOffsets ==
    (AllOk /\ NoZeroOffsetPut) => LoadNeedleMap(indexFile).m = nm.m

C1_Witness ==
    /\ AllOk /\ NoZeroOffsetPut
    /\ SomeCall("Put") /\ SomeCall("Delete")
    /\ nm.m # NewCompactMap
    /\ LoadNeedleMap(indexFile).m = nm.m

\* C2: after any sequence of successful Put and Delete calls, the four
\* cumulative counters rebuilt by LoadNeedleMap equal the live ones.  Stated
\* for Puts with offset > 0 only, so that a violation is not owed to a Put
\* that wrote a tombstone-shaped record.
C2_RoundTripCounters ==
    (AllOk /\ NoZeroOffsetPut) => Counters(LoadNeedleMap(indexFile)) = Counters(nm)

\* C3: two NextFileKey calls in a row with counts n1, n2 > 0 return k and
\* then k + n1.
C3_MonotoneAllocator ==
    \A i \in DOMAIN calls :
        (/\ i + 1 \in DOMAIN calls
         /\ calls[i].op = "NextFileKey" /\ calls[i].count > 0
         /\ calls[i + 1].op = "NextFileKey" /\ calls[i + 1].count > 0)
        => calls[i + 1].ret = U64Add(calls[i].ret, calls[i].count)

\* C4: a key that was Put and later Deleted, with no Put of it since, is not
\* found by Get on the live index nor on the index rebuilt from the log,
\* whatever successful calls on other keys are interleaved.
C4_TombstonePrecedence ==
    \A key \in Keys :
        (AllOk /\ PutThenDeleted(key)) =>
            /\ ~CompactMapGet(nm.m, key).ok
            /\ ~CompactMapGet(LoadNeedleMap(indexFile).m, key).ok

C4_Witness ==
    \E key \in Keys, other \in Keys :
        /\ key # other
        /\ AllOk /\ PutThenDeleted(key)
        /\ calls[Len(calls)].op = "Put" /\ calls[Len(calls)].key = other
        /\ CompactMapGet(LoadNeedleMap(indexFile).m, other).ok
        /\ ~CompactMapGet(LoadNeedleMap(indexFile).m, key).ok

\* -------------------------------------------------- volume layout properties
Required == GetCopyCount(repType)

Locations(vid) == IF vid \in DOMAIN vid2location THEN vid2location[vid] ELSE <<>>

Occurrences(vid) == Cardinality({i \in DOMAIN writables : writables[i] = vid})

\* C5: every volume id in writables has a location list holding at least the
\* copy count its layout's replication class requires.
C5_WritableHasEnoughReplicas ==
    \A i \in DOMAIN writables :
        /\ writables[i] \in DOMAIN vid2location
        /\ Len(vid2location[writables[i]]) >= Required

C5_Witness ==
    /\ lastCall.op = "SetVolumeUnavailable"
    /\ lastCall.vid \in Range(writables)
    /\ Len(Locations(lastCall.vid)) >= Required
    /\ \E vid \in Vids : vid \notin Range(writables) /\ Len(Locations(vid)) > 0

\* C6: a volume whose last RegisterVolume report failed the writability
\* predicate, or that was passed to SetVolumeCapacityFull since its last
\* report satisfying the predicate, is not in writables.
C6_UnwritableStaysOut ==
    \A vid \in unwritable : vid \notin Range(writables)

\* C7: after a RegisterVolume call that added the node as a new member, with
\* the location list then holding at least the required copy count and the
\* report satisfying the writability predicate, the volume id is in writables.
C7_RegisterMakesWritable ==
    (/\ lastCall.op = "RegisterVolume"
     /\ lastCall.ret
     /\ Len(Locations(lastCall.vid)) >= Required
     /\ lastCall.vid \notin unwritable)
    => lastCall.vid \in Range(writables)

\* C8: SetVolumeUnavailable(node, V) takes node out of V's location list; if
\* fewer than the required copies remain, V is not in writables after the
\* call; if V was not in writables before the call, writables is unchanged.
C8_SetVolumeUnavailable ==
    [][lastCall'.op = "SetVolumeUnavailable" =>
         \A dn \in DataNodes, vid \in Vids :
            SetVolumeUnavailable(dn, vid) =>
               /\ dn \notin Range(vid2location'[vid])
               /\ (Len(vid2location'[vid]) < Required => vid \notin Range(writables'))
               /\ (vid \notin Range(writables) => writables' = writables)]_vars

C8_Witness ==
    /\ lastCall.op = "SetVolumeUnavailable"
    /\ lastCall.ret
    /\ Len(Locations(lastCall.vid)) = Required - 1
    /\ lastCall.vid \notin Range(writables)
    /\ writables # <<>>

\* C9: after a RegisterVolume call for a volume, calling RegisterVolume again
\* for that volume with the same node (or any node already in its location
\* list), whatever the report says, leaves the location lists and writables
\* unchanged: Add reports no change and the volume does not enter writables a
\* second time.
C9_RegisterTwice ==
    lastCall.op = "RegisterVolume" =>
        \A v \in VolumeInfos(repType), dn \in Range(Locations(lastCall.vid)) :
            v.Id = lastCall.vid =>
                LET again == VolumeLayoutRegisterVolume(Layout, v, dn)
                IN  /\ ~again.added
                    /\ again.vid2location = vid2location
                    /\ again.writables = writables

\* a repeated registration (Add reported no change) of a volume that the
\* first one made writable
C9_Witness ==
    /\ lastCall.op = "RegisterVolume"
    /\ ~lastCall.ret
    /\ lastCall.vid \notin unwritable
    /\ Len(Locations(lastCall.vid)) = Required
    /\ Occurrences(lastCall.vid) = 1

\* C10: PickForWrite called while writables is empty fails with the "no
\* writable volumes" error, whatever the count.
C10_PickOnEmpty ==
    (lastCall.op = "PickForWrite" /\ writables = <<>>) =>
        /\ lastCall.pick.err = ErrNoWritable
        /\ \A count \in PickCounts :
             VolumeLayoutPickForWrite(Layout, count, 0).err = ErrNoWritable

C10_Witness ==
    /\ lastCall.op = "PickForWrite"
    /\ writables = <<>>
    /\ vid2location # <<>>
    /\ \E vid \in DOMAIN vid2location : Len(vid2location[vid]) >= Required
    /\ lastCall.pick.err = ErrNoWritable

\* C11: while writables is not empty, PickForWrite(count) returns a volume id
\* that is in writables, with that volume's location list and the count it was
\* given; each id in writables is the result for some random index, and no
\* index gives an id outside writables.
C11_PickReturnsWritable ==
    /\ (lastCall.op = "PickForWrite" /\ writables # <<>>) =>
           /\ lastCall.pick.err = ""
           /\ lastCall.pick.vid \in Range(writables)
           /\ lastCall.pick.locationList = Locations(lastCall.pick.vid)
    /\ \A count \in PickCounts :
           /\ \A i \in 0..(Len(writables) - 1) :
                  LET p == VolumeLayoutPickForWrite(Layout, count, i)
                  IN  /\ p.err = ""
                      /\ p.vid \in Range(writables)
                      /\ p.count = count
                      /\ p.locationList = Locations(p.vid)
           /\ \A vid \in Range(writables) :
                  \E i \in 0..(Len(writables) - 1) :
                      VolumeLayoutPickForWrite(Layout, count, i).vid = vid

C11_Witness ==
    /\ lastCall.op = "PickForWrite"
    /\ Len(writables) = 2
    /\ lastCall.pick.vid = writables[2]
    /\ lastCall.pick.count = MaxCount
    /\ lastCall.pick.locationList # <<>>

\* ------------------------------------------------- the counter scenario
\* the needle map driven with the scenario's record (key 100, offset 5,
\* size 200) and one other key and size
ScenarioKey == <<0, 100>>
ScenarioKeys == {ScenarioKey, <<0, 1>>}
ScenarioSizes == {200, 0}

ScenarioPut ==
    \E key \in ScenarioKeys, size \in ScenarioSizes :
        Put(key, 5, size, RecordSize)

ScenarioDelete == \E key \in ScenarioKeys : Delete(key, TRUE, RecordSize, TRUE)

NextScenario ==
    \/ ScenarioPut
    \/ ScenarioDelete
    \/ CloseAndLoad

SpecScenario == Init /\ [][NextScenario]_vars

\* on an empty index: Put(100, 5, 200), Delete(100), close and reload
ScenarioDone ==
    /\ Len(calls) = 3
    /\ calls[1].op = "Put" /\ calls[1].key = ScenarioKey
    /\ calls[1].offset = 5 /\ calls[1].size = 200
    /\ calls[2].op = "Delete" /\ calls[2].key = ScenarioKey
    /\ calls[3].op = "Load"

LoggedKeys == {r.key : r \in Range(walkIndexFile(indexFile, <<>>).records)}

\* C13: when NextFileKey(count) with count > 0 has just returned ret, no key
\* in [ret, ret+count) has a record in the index log or an entry in the live
\* map.
C13_FreshKeys ==
    (calls # <<>> /\ calls[Len(calls)].op = "NextFileKey"
                  /\ calls[Len(calls)].count > 0) =>
        \A d \in 0..(calls[Len(calls)].count - 1) :
            LET key == U64Add(calls[Len(calls)].ret, d)
            IN  /\ key \notin LoggedKeys
                /\ ~CompactMapGet(nm.m, key).ok

\* no Delete call has failed so far
NoFailedDelete == \A i \in DOMAIN calls : calls[i].op = "Delete" => ~calls[i].err

\* C14: once a Put or Delete has returned, the length of the index log is a
\* multiple of 16, also when its Write failed after part of the record.
\* Stated for histories in which no Delete failed, so that a violation is not
\* owed to a Truncate that failed.
C14_LogLength ==
    NoFailedDelete => Len(indexFile) % RecordSize = 0

LastCall == calls[Len(calls)]

\* C15: a Delete whose Write of the tombstone fails returns an error; the log
\* is truncated back to the position taken before the Write, so that it
\* holds what it held before the call; when the Truncate fails too, the error
\* returned is still the write error, with the truncation failure added to it.
C15_DeleteFailure ==
    [][(calls' # calls /\ calls'[Len(calls')].op = "Delete"
                       /\ calls'[Len(calls')].err) =>
          \A key \in Keys, n \in TornLens, truncOk \in BOOLEAN :
              Delete(key, TRUE, n, truncOk) =>
                  /\ calls'[Len(calls')].err
                  /\ truncOk => /\ indexFile' = indexFile
                                /\ calls'[Len(calls')].msg = ErrWriting
                  /\ ~truncOk => calls'[Len(calls')].msg = ErrWritingPlusTruncate]_vars

C15_Witness ==
    /\ calls # <<>>
    /\ LastCall.op = "Delete" /\ LastCall.err /\ LastCall.msg = ErrWriting
    /\ indexFile # <<>>
    /\ indexFile = PutRecord(LastCall.key, MaxOffset, MaxSize)

\* ------------------------------------------------ replay under chunking
\* walkIndexFile applied to index logs of up to MaxRows records, with or
\* without a partial record at the end, read in up to MaxReads chunks of the
\* lengths in ChunkLens and then in one Read of all that is left
MaxRows == 2
MaxReads == 3
ChunkLens == {1, 7, 16, 20}

WalkRecords ==
    {PutRecord(<<0, 1>>, 1, 1), PutRecord(<<0, 257>>, 1, 0), DeleteRecord(<<0, 1>>)}

RECURSIVE SeqsUpTo(_, _)
SeqsUpTo(S, n) ==
    IF n = 0 THEN {<<>>}
    ELSE LET shorter == SeqsUpTo(S, n - 1)
         IN  shorter \cup {Append(q, x) : q \in shorter, x \in S}

RECURSIVE Flatten(_)
Flatten(rows) == IF rows = <<>> THEN <<>> ELSE Head(rows) \o Flatten(Tail(rows))

WalkFiles ==
    {Flatten(rows) \o SubSeq(PutRecord(<<0, 257>>, 1, 1), 1, t) :
        rows \in SeqsUpTo(WalkRecords, MaxRows), t \in TornLens}

InitWalk ==
    /\ indexFile \in WalkFiles
    /\ nm = NewNeedleMap
    /\ calls = <<>>
    /\ InitLayout({1})

Walk(reads) ==
    /\ calls = <<>>
    /\ LET w == walkIndexFile(indexFile, reads)
       IN  calls' = <<[op |-> "walkIndexFile", reads |-> reads,
                       records |-> w.records, err |-> w.err]>>
    /\ UNCHANGED <<indexFile, nm>>
    /\ UNCHANGED vlVars

WalkCall == \E reads \in SeqsUpTo(ChunkLens, MaxReads) : Walk(reads)

NextWalk == WalkCall

SpecWalk == InitWalk /\ [][NextWalk]_vars

\* C16: whatever the lengths of the chunks the reader delivers, walkIndexFile
\* hands fn each complete 16-byte record of the log once, in log order, a
\* record split over two or more reads included; a partial record at the end
\* is not handed over, and the walk returns no error.
C16_ReplayChunking ==
    (calls # <<>> /\ calls[1].op = "walkIndexFile") =>
        /\ calls[1].records = RowsOf(indexFile)
        /\ Len(calls[1].records) = Len(indexFile) \div RecordSize
        /\ calls[1].err = "nil"

C16_Witness ==
    /\ calls # <<>> /\ calls[1].op = "walkIndexFile"
    /\ calls[1].reads = <<20, 7, 1>>
    /\ Len(indexFile) = 2 * RecordSize + 7
    /\ Len(calls[1].records) = 2
    /\ calls[1].records[2].key = <<0, 257>>

\* the step is a Put call
PutStep == calls' # calls /\ calls'[Len(calls')].op = "Put"

\* the size of the record the map held for key before the step, 0 if none
PreviousSize(key) ==
    IF CompactMapGet(nm.m, key).ok THEN CompactMapGet(nm.m, key).element.size ELSE 0

\* C17 as stated: every Put adds 1 to FileCounter and its size to
\* FileByteCounter; if and only if the map held a record for the key, of
\* whatever size, it adds 1 to DeletionCounter and the previous size to
\* DeletionByteCounter, and otherwise leaves both alone.
C17_PutAccounting ==
    [][PutStep =>
          LET c == calls'[Len(calls')]
          IN  /\ nm'.FileCounter = nm.FileCounter + 1
              /\ nm'.FileByteCounter = nm.FileByteCounter + c.size
              /\ nm'.DeletionCounter =
                     IF CompactMapGet(nm.m, c.key).ok THEN nm.DeletionCounter + 1
                     ELSE nm.DeletionCounter
              /\ nm'.DeletionByteCounter =
                     IF CompactMapGet(nm.m, c.key).ok
                     THEN nm.DeletionByteCounter + PreviousSize(c.key)
                     ELSE nm.DeletionByteCounter]_vars

\* C17 amended: every Put adds 1 to FileCounter and its size to
\* FileByteCounter; if and only if the map held a record of size > 0 for the
\* key, it adds 1 to DeletionCounter and the previous size to
\* DeletionByteCounter, and otherwise leaves both alone.
C17_PutAccountingPositiveSize ==
    [][PutStep =>
          LET c == calls'[Len(calls')]
              superseded == CompactMapGet(nm.m, c.key).ok /\ PreviousSize(c.key) > 0
          IN  /\ nm'.FileCounter = nm.FileCounter + 1
              /\ nm'.FileByteCounter = nm.FileByteCounter + c.size
              /\ nm'.DeletionCounter =
                     IF superseded THEN nm.DeletionCounter + 1 ELSE nm.DeletionCounter
              /\ nm'.DeletionByteCounter =
                     IF superseded THEN nm.DeletionByteCounter + PreviousSize(c.key)
                     ELSE nm.DeletionByteCounter]_vars

C17_Witness ==
    /\ Len(calls) = 2
    /\ \A i \in 1..2 : calls[i].op = "Put" /\ calls[i].key = calls[1].key
    /\ calls[1].size = MaxSize /\ calls[2].err
    /\ Counters(nm) = <<2, MaxSize + calls[2].size, 1, MaxSize>>

\* ------------------------------------------------------------ compaction
\* the orders in which the keys in S can be visited
Orders(S) ==
    {q \in SeqsUpTo(S, Cardinality(S)) : Len(q) = Cardinality(S) /\ Range(q) = S}

\* the replacement log: one record for each entry visited
RECURSIVE ReplacementLog(_)
ReplacementLog(visited) ==
    IF visited = <<>> THEN <<>>
    ELSE PutRecord(Head(visited).key, Head(visited).offset, Head(visited).size)
             \o ReplacementLog(Tail(visited))

\* the needle map loaded from the replacement log equals the live map and
\* counts no deletion and one file for each live key
CompactedLoadsClean(order) ==
    LET c == LoadNeedleMap(ReplacementLog(NeedleMapVisit(nm, order)))
    IN  /\ c.m = nm.m
        /\ DeletedCount(c) = 0
        /\ DeletedSize(c) = 0
        /\ FileCount(c) = Cardinality(DOMAIN nm.m)

\* C18 as stated: after any history of Put and Delete calls, loading a log
\* that holds one record for each live entry Visit enumerates gives the
\* live map again, with DeletionCounter 0, DeletionByteCounter 0 and
\* FileCounter equal to the number of live keys.
C18_Compaction ==
    \A order \in Orders(DOMAIN nm.m) : CompactedLoadsClean(order)

\* C18 amended: the same, for a needle map whose live entries all have an
\* offset > 0.
C18_CompactionPositiveOffsets ==
    (\A key \in DOMAIN nm.m : nm.m[key].offset > 0) =>
        \A order \in Orders(DOMAIN nm.m) : CompactedLoadsClean(order)

C18_Witness ==
    /\ SomeCall("Delete") /\ DeletedCount(nm) > 0 /\ FileCount(nm) >= 2
    /\ Cardinality(DOMAIN nm.m) = 1
    /\ \A key \in DOMAIN nm.m : nm.m[key].offset > 0
    /\ \A order \in Orders(DOMAIN nm.m) : CompactedLoadsClean(order)

\* C19: every volume id in writables is a key of vid2location, and no
\* PickForWrite call returns the 'is on no machine' error.
C19_WritableIsLocated ==
    /\ Range(writables) \subseteq DOMAIN vid2location
    /\ lastCall.op = "PickForWrite" => lastCall.pick.err # ErrOnNoMachine
    /\ \A count \in PickCounts, i \in 0..(Len(writables) - 1) :
           VolumeLayoutPickForWrite(Layout, count, i).err # ErrOnNoMachine

C19_Witness ==
    /\ lastCall.op = "PickForWrite"
    /\ lastCall.pick.err = ""
    /\ lastCall.pick.vid \in DOMAIN vid2location
    /\ \E vid \in Vids : vid \notin DOMAIN vid2location
    /\ unwritable = {}

\* C20: no volume id occurs twice in writables, so GetActiveVolumeCount is
\* the number of distinct writable volumes, and after one call of
\* SetVolumeCapacityFull(vid) writables does not hold vid.
C20_NoDuplicateWritable ==
    /\ \A vid \in Vids : Occurrences(vid) <= 1
    /\ GetActiveVolumeCount(Layout) = Cardinality(Range(writables))
    /\ lastCall.op = "SetVolumeCapacityFull" => lastCall.vid \notin Range(writables)

C20_Witness ==
    /\ lastCall.op = "SetVolumeCapacityFull" /\ lastCall.ret
    /\ Len(Locations(lastCall.vid)) > Required
    /\ writables # <<>>
    /\ GetActiveVolumeCount(Layout) = 1

====
